---- MODULE Spec2Model ----
(***************************************************************************)
(* zeppelin_core: a password based authenticated stream cipher whose       *)
(* keystream comes from a Balloon-hashing variant (hash.rs), the stream    *)
(* cipher built on it (cipher.rs: Stream), the protocol encrypt /          *)
(* decrypt_salt / decrypt (cipher.rs) as driven by create_container and    *)
(* read_container (container.rs), and the Progress object they report to   *)
(* (progress.rs).                                                          *)
(*                                                                         *)
(* Bytes are the integers 0..255 and blocks are sequences of BLOCK bytes.  *)
(* The external primitives (SHA3-512, Argon2id, the OS random generator)   *)
(* are deterministic stand-ins of the same shape: a digest is a function   *)
(* of the whole byte sequence absorbed, a derived key a function of        *)
(* password and salt, a fresh salt a choice out of a small set.            *)
(* Sequences are 1-based: the code's buffer[k] is buffer[k + 1] here; the  *)
(* cursors pos, mask_ptr and salt_ptr keep the code's 0-based values.      *)
(***************************************************************************)
EXTENDS Integers, Sequences, FiniteSets, TLC

\* ------------------------------------------------------------------ bounds
\* largest s_cost drawn for CryptSettings (0 is drawn too: invalid settings)
MaxSCost == 2
\* largest t_cost drawn
MaxTCost == 1
\* largest step_delta drawn
MaxDelta == 1
\* longest payload handed to create_container
MaxLen == 2

\* ------------------------------------------------------- program constants
\* bytes of a block, of a digest, of a mask, of a salt ([u8; 64])
BLOCK == 64
\* const BUFFER_SIZE: usize = 8 * 1024
BUFFER_SIZE == 8192

Byte == 0..255

VARIABLES
    endian,            \* byte order of the target: to_ne_bytes / transmute
    debug_assertions   \* cfg(debug_assertions) of the build

\* ---------------------------------------------------------------- helpers
Min(a, b) == IF a < b THEN a ELSE b

\* F(v) with v evaluated first, and once: TLC evaluates the argument of an
\* operator only where it is used, which nests the evaluation of a long
\* loop as deep as the loop is long
Bind(v, F(_)) == CASE Len(<<v>>) = 1 -> F(v)

RECURSIVE BitXor(_, _)
\* u8 ^ u8
BitXor(a, b) ==
    IF a = 0 THEN b
    ELSE IF b = 0 THEN a
    ELSE (((a % 2) + (b % 2)) % 2) + 2 * BitXor(a \div 2, b \div 2)

Zeros == [z \in 1..BLOCK |-> 0]

\* ------------------------------------------------- external primitives
RECURSIVE Absorb(_, _, _, _)
\* the sponge state a after absorbing s[lo..hi], one byte after the other
\* (the range is split in halves to keep the evaluation shallow)
Absorb(s, lo, hi, a) ==
    IF lo > hi THEN a
    ELSE IF lo = hi THEN (a * 257 + s[lo] + 1) % 1000003
    ELSE Bind(Absorb(s, lo, (lo + hi) \div 2, a),
              LAMBDA left : Absorb(s, ((lo + hi) \div 2) + 1, hi, left))

\* squeeze: 64 bytes determined by the sponge state (its three base-256
\* digits first, so that distinct states give distinct digests); SubSeq
\* makes the digest a sequence of bytes computed here and now
Squeeze(a) ==
    SubSeq([q \in 1..BLOCK |->
               IF q = 1 THEN a % 256
               ELSE IF q = 2 THEN (a \div 256) % 256
               ELSE IF q = 3 THEN (a \div 65536) % 256
               ELSE ((a + q) * 131 + (a \div 256) * q + (a \div 65536)) % 256],
           1, BLOCK)

\* Sha3_512: the digest of everything update() has absorbed
Sha3_512(input) == Squeeze(Absorb(input, 1, Len(input), 17))

\* Argon2id hash_password_into(key, salt, output)
Argon2(key, salt) ==
    Squeeze(Absorb(key \o <<255>> \o salt, 1, Len(key) + 1 + Len(salt), 4242))

\* ----------------------------------------------------------- progress.rs
\* Progress::new(): the state behind the Arc<Mutex<..>>
Progress_new == [progress |-> 0, out_of |-> 1, state |-> ""]

inc(prog) == [prog EXCEPT !.progress = @ + 1]

set_state(prog, state) == [prog EXCEPT !.state = state]

set_max(prog, max) == [prog EXCEPT !.out_of = max]

set_max_data(prog, bytes) == set_max(prog, bytes \div 64)

\* a variant of inc_max that sets the target instead of raising it (C22
\* tells it apart)
inc_max_set(prog, n) == [prog EXCEPT !.out_of = n]

inc_max(prog, n) == [prog EXCEPT !.out_of = @ + n]

\* --------------------------------------------------------------- hash.rs
\* val.to_ne_bytes() of a u64 below 2^32: eight bytes in the target's order
int_to_arr(val) ==
    LET le == [d \in 1..8 |->
                  IF d = 1 THEN val % 256
                  ELSE IF d = 2 THEN (val \div 256) % 256
                  ELSE IF d = 3 THEN (val \div 65536) % 256
                  ELSE IF d = 4 THEN (val \div 16777216) % 256
                  ELSE 0]
    IN  IF endian = "little" THEN le ELSE [d \in 1..8 |-> le[9 - d]]

RECURSIVE RemFrom(_, _, _, _)
\* the value of the digits ds[at], ds[at+1], .. (most significant first)
\* after acc, reduced mod m
RemFrom(ds, at, m, acc) ==
    IF at > Len(ds) THEN acc
    ELSE RemFrom(ds, at + 1, m, (acc * 256 + ds[at]) % m)

\* arr_to_int(&arr).rem_euclid(m): the eight bytes read as a u64 in the
\* target's order, reduced mod m (the u64 itself is never materialised)
arr_to_int_rem(arr, m) ==
    LET msb == IF endian = "little" THEN [d \in 1..8 |-> arr[9 - d]] ELSE arr
    IN  RemFrom(msb, 1, m, 0)

\* a generator that was never built (Balloon::new panicked)
\* (calls is not a field of the struct: it lists, for the call of new or
\* step that ended last, the hash computations it finalized)
NoBalloon == [buffer |-> <<>>, hash |-> <<>>, salt |-> <<>>,
              step_delta |-> 0, cnt |-> 0, pos |-> 0, calls |-> <<>>]

\* self.hash.update(bytes)
update(self, bytes) == [self EXCEPT !.hash = @ \o bytes]

\* a variant of count that counts by two (C16 tells it apart)
count_twice(self) == [self EXCEPT !.cnt = @ + 2]

\* self.cnt += 1
count(self) == [self EXCEPT !.cnt = @ + 1]

\* self.hash.finalize_fixed_reset(), the digest aside: the hasher is empty
\* again, and calls gets what was hashed (input) with the site of the
\* computation (what) and the position and the counter at that moment
finalize_fixed_reset(self, what) ==
    [self EXCEPT !.hash = <<>>,
                 !.calls = Append(@, [what  |-> what,
                                     pos   |-> self.pos,
                                     cnt   |-> self.cnt,
                                     input |-> self.hash])]

\* self.buffer[k] = self.hash.finalize_fixed_reset().into()
finalize_into(self, k, what) ==
    [finalize_fixed_reset(self, what) EXCEPT !.buffer[k + 1] = Sha3_512(self.hash)]

\* the first half of a turn of the loop of step_internal: i, cnt and salt
\* are hashed, cnt is counted, and the first 8 bytes of the digest, as an
\* integer mod s_cost, give the index `other`
Other(self, i) ==
    Bind(count(update(self, int_to_arr(i) \o int_to_arr(self.cnt) \o self.salt)),
         LAMBDA u :
             [b     |-> finalize_fixed_reset(u, "index"),
              other |-> arr_to_int_rem(SubSeq(Sha3_512(u.hash), 1, 8),
                                       Len(u.buffer))])

\* the second half: cnt, buffer[pos] and buffer[other] are hashed into
\* buffer[pos], cnt is counted
SampleTurn(self, i) ==
    Bind(Other(self, i), LAMBDA o :
        finalize_into(
            count(update(o.b, int_to_arr(o.b.cnt) \o o.b.buffer[o.b.pos + 1]
                                  \o o.b.buffer[o.other + 1])),
            o.b.pos, "sampled"))

RECURSIVE Sample(_, _)
\* the loop `for i in 0..self.step_delta` of step_internal, from turn i on
Sample(self, i) ==
    IF i >= self.step_delta THEN self
    ELSE Bind(SampleTurn(self, i), LAMBDA nxt : Sample(nxt, i + 1))

\* a variant of MixPrev that hashes the counter before prev (C13 tells it
\* apart)
MixPrev_counter_first(self) ==
    finalize_into(
        count(update(self,
                     int_to_arr(self.cnt)
                         \o (IF self.pos = 0 THEN self.buffer[Len(self.buffer)]
                             ELSE self.buffer[self.pos + 1])
                         \o self.buffer[self.pos + 1])),
        self.pos, "mix")

\* a variant of MixPrev whose prev is the block before pos, wrapped (C15
\* tells it apart)
MixPrev_wrapped(self) ==
    finalize_into(
        count(update(self,
                     (IF self.pos = 0 THEN self.buffer[Len(self.buffer)]
                      ELSE self.buffer[self.pos])
                         \o int_to_arr(self.cnt) \o self.buffer[self.pos + 1])),
        self.pos, "mix")

\* step_internal up to the loop: prev, cnt and buffer[pos] are hashed into
\* buffer[pos], cnt is counted
MixPrev(self) ==
    finalize_into(
        count(update(self,
                     (IF self.pos = 0 THEN self.buffer[Len(self.buffer)]
                      ELSE self.buffer[self.pos + 1])
                         \o int_to_arr(self.cnt) \o self.buffer[self.pos + 1])),
        self.pos, "mix")

\* a variant of Advance whose block depends on the count of the Progress
\* (C8 tells it apart)
Advance_by_progress(self, prog) ==
    [b    |-> [self EXCEPT !.pos = (self.pos + 1) % Len(self.buffer)],
     res  |-> self.buffer[((self.pos + prog.progress) % Len(self.buffer)) + 1],
     prog |-> inc(prog)]

\* a variant of Advance that reads the block after pos has advanced (C17
\* tells it apart)
Advance_then_read(self, prog) ==
    [b    |-> [self EXCEPT !.pos = (self.pos + 1) % Len(self.buffer)],
     res  |-> self.buffer[((self.pos + 1) % Len(self.buffer)) + 1],
     prog |-> inc(prog)]

\* the end of step_internal: the block at pos is returned, pos advances
\* round the buffer, prog.inc()
Advance(self, prog) ==
    [b    |-> [self EXCEPT !.pos = (self.pos + 1) % Len(self.buffer)],
     res  |-> self.buffer[self.pos + 1],
     prog |-> inc(prog)]

\* Balloon::step_internal: the generator after the step, the block returned
\* and the Progress
step_internal(self, prog) ==
    Bind(MixPrev(self), LAMBDA s1 :
        Bind(Sample(s1, 0), LAMBDA s2 : Advance(s2, prog)))

\* a variant of step that hashes the counter with the result (C14 tells it
\* apart)
step_counted(self, prog) ==
    Bind(step_internal([self EXCEPT !.calls = <<>>], prog), LAMBDA r :
        Bind(update(r.b, int_to_arr(r.b.cnt) \o r.res), LAMBDA u :
            [b    |-> finalize_fixed_reset(u, "output"),
             res  |-> Sha3_512(u.hash),
             prog |-> r.prog]))

\* Balloon::step: one internal step and one more hash over its result
step(self, prog) ==
    Bind(step_internal([self EXCEPT !.calls = <<>>], prog), LAMBDA r :
        Bind(update(r.b, r.res), LAMBDA u :
            [b    |-> finalize_fixed_reset(u, "output"),
             res  |-> Sha3_512(u.hash),
             prog |-> r.prog]))

RECURSIVE Fill(_, _)
\* the loop `for m in 1..s_cost` of Balloon::new, from index m on
Fill(self, m) ==
    IF m >= Len(self.buffer) THEN self
    ELSE Bind(finalize_into(
                  count(update(self, int_to_arr(self.cnt) \o self.buffer[m])),
                  m, "fill"),
              LAMBDA nxt : Fill(nxt, m + 1))

RECURSIVE Mix(_, _, _)
\* the two nested mixing loops of Balloon::new: n more internal steps
Mix(self, prog, n) ==
    IF n = 0 THEN [b |-> self, prog |-> prog]
    ELSE Bind(step_internal(self, prog), LAMBDA r : Mix(r.b, r.prog, n - 1))

\* Balloon::new from `let mut res = Self {..}` on, for s_cost > 0: the
\* buffer is filled as a hash chain from passwd and salt, then mixed
FillAndMix(passwd, salt, s_cost, t_cost, step_delta, prog) ==
    Bind(finalize_into(
             count(update([buffer     |-> [j \in 1..s_cost |-> Zeros],
                           hash       |-> <<>>,
                           salt       |-> salt,
                           step_delta |-> step_delta,
                           cnt        |-> 0,
                           pos        |-> 0,
                           calls      |-> <<>>],
                          int_to_arr(0) \o passwd \o salt)),
             0, "fill"),
         LAMBDA res1 :
             Bind(Fill(res1, 1), LAMBDA res2 :
                 Mix(res2, set_state(prog, "Mixing buffer"), s_cost * t_cost)))

\* Balloon::new: panic is "" when the generator was built, else the message
\* of the panic that ended the thread
Balloon_new(passwd, salt, s_cost, t_cost, step_delta, prog) ==
    IF debug_assertions /\ s_cost = 0
    THEN [panic |-> "s_cost must be positive", b |-> NoBalloon, prog |-> prog]
    ELSE IF debug_assertions /\ t_cost = 0
    THEN [panic |-> "s_cost must be positive", b |-> NoBalloon, prog |-> prog]
    ELSE IF debug_assertions /\ step_delta = 0
    THEN [panic |-> "step_delta must be positive", b |-> NoBalloon, prog |-> prog]
    ELSE IF s_cost = 0
    THEN [panic |-> "index out of bounds", b |-> NoBalloon,
          prog  |-> inc_max(set_state(prog, "Filling buffer"), s_cost * t_cost)]
    ELSE Bind(FillAndMix(passwd, salt, s_cost, t_cost, step_delta,
                         inc_max(set_state(prog, "Filling buffer"),
                                 s_cost * t_cost)),
              LAMBDA r : [panic |-> "", b |-> r.b, prog |-> r.prog])

\* ------------------------------------------------------- cipher.rs: Stream
\* a Stream that was never built
NoStream == [balloon |-> NoBalloon, mask |-> Zeros, mask_ptr |-> 0, salt_ptr |-> 0]

\* Stream::new after Balloon::new: the first mask is the first step()
FirstMask(n) ==
    IF n.panic # ""
    THEN [panic |-> n.panic, s |-> NoStream, prog |-> n.prog]
    ELSE Bind(step(n.b, n.prog), LAMBDA r :
             [panic |-> "",
              s     |-> [balloon |-> r.b, mask |-> r.res,
                         mask_ptr |-> 0, salt_ptr |-> 0],
              prog  |-> r.prog])

\* Stream::new: the generator and its first mask; panic as for Balloon_new
Stream_new(passwd, salt, settings, prog) ==
    Bind(Balloon_new(passwd, salt, settings.s_cost, settings.t_cost,
                     settings.step_delta, prog),
         LAMBDA n : FirstMask(n))

\* the refill `if self.mask_ptr >= 64 { mask = balloon.step(); mask_ptr = 0 }`
Refill(self, prog) ==
    IF self.mask_ptr >= BLOCK
    THEN Bind(step(self.balloon, prog), LAMBDA r :
             [s    |-> [self EXCEPT !.balloon = r.b, !.mask = r.res, !.mask_ptr = 0],
              prog |-> r.prog])
    ELSE [s |-> self, prog |-> prog]

\* a variant of Masked that adds the mask instead: applied twice it does
\* not give the byte back (C1 tells it apart)
Masked_add(self, byte) == (byte + self.mask[self.mask_ptr + 1]) % 256

\* `*byte ^= self.mask[self.mask_ptr]`
Masked(self, byte) == BitXor(byte, self.mask[self.mask_ptr + 1])

\* a variant of SaltByte that folds the byte before it is masked (C9 tells
\* it apart)
SaltByte_plain(st, i, f) ==
    Bind(Masked(f.s, st.data[i]), LAMBDA byte :
        [s    |-> [f.s EXCEPT !.mask_ptr = @ + 1, !.salt_ptr = @ + 1],
         data |-> [st.data EXCEPT ![i] = byte],
         salt |-> [st.salt EXCEPT ![(f.s.salt_ptr % BLOCK) + 1] =
                                       BitXor(@, st.data[i])],
         prog |-> f.prog])

\* a variant of SaltByte that refills as soon as the last byte of the mask
\* is used, not when the next byte comes (C18 tells it apart)
SaltByte_eager(st, i, f) ==
    Bind(Masked(f.s, st.data[i]), LAMBDA byte :
        Bind(Refill([f.s EXCEPT !.mask_ptr = @ + 1, !.salt_ptr = @ + 1], f.prog),
             LAMBDA e :
                 [s    |-> e.s,
                  data |-> [st.data EXCEPT ![i] = byte],
                  salt |-> [st.salt EXCEPT ![(f.s.salt_ptr % BLOCK) + 1] = BitXor(@, byte)],
                  prog |-> e.prog]))

\* the body of the loop of apply_with_salt for the byte data[i], after the
\* refill f; st holds the Stream, the data, the salt and the Progress
SaltByte(st, i, f) ==
    Bind(Masked(f.s, st.data[i]), LAMBDA byte :
        [s    |-> [f.s EXCEPT !.mask_ptr = @ + 1, !.salt_ptr = @ + 1],
         data |-> [st.data EXCEPT ![i] = byte],
         salt |-> [st.salt EXCEPT ![(f.s.salt_ptr % BLOCK) + 1] = BitXor(@, byte)],
         prog |-> f.prog])

RECURSIVE SaltLoop(_, _, _)
\* `for byte in data.as_mut()` of apply_with_salt over data[lo..hi], in
\* order (the range is split in halves to keep the evaluation shallow)
SaltLoop(st, lo, hi) ==
    IF lo > hi THEN st
    ELSE IF lo = hi
    THEN Bind(Refill(st.s, st.prog), LAMBDA f : SaltByte(st, lo, f))
    ELSE Bind(SaltLoop(st, lo, (lo + hi) \div 2),
              LAMBDA left : SaltLoop(left, ((lo + hi) \div 2) + 1, hi))

\* a variant of apply_with_salt that starts every call at index 0 of the
\* salt (C4 tells it apart when a chunk ends inside a block)
apply_with_salt_rewound(self, data, salt, prog) ==
    SaltLoop([s |-> [self EXCEPT !.salt_ptr = 0], data |-> data, salt |-> salt,
              prog |-> prog],
             1, Len(data))

\* Stream::apply_with_salt: data is overwritten in place, salt folded
apply_with_salt(self, data, salt, prog) ==
    SaltLoop([s |-> self, data |-> data, salt |-> salt, prog |-> prog],
             1, Len(data))

\* a variant of HashByte that masks with the byte after mask_ptr (C5 tells
\* it apart)
HashByte_next_mask(st, i, f) ==
    Bind(BitXor(st.data[i], f.s.mask[((f.s.mask_ptr + 1) % BLOCK) + 1]),
         LAMBDA byte :
            [s    |-> [f.s EXCEPT !.mask_ptr = @ + 1],
             data |-> [st.data EXCEPT ![i] = byte],
             hash |-> st.hash \o <<byte>>,
             prog |-> f.prog])

\* a variant of HashByte that feeds the hash the byte as it came in (C19
\* tells it apart)
HashByte_input(st, i, f) ==
    Bind(Masked(f.s, st.data[i]), LAMBDA byte :
        [s    |-> [f.s EXCEPT !.mask_ptr = @ + 1],
         data |-> [st.data EXCEPT ![i] = byte],
         hash |-> st.hash \o <<st.data[i]>>,
         prog |-> f.prog])

\* the body of the loop of apply_with_hash for the byte data[i], after the
\* refill f; hash is what the Sha3_512 passed in has absorbed
HashByte(st, i, f) ==
    Bind(Masked(f.s, st.data[i]), LAMBDA byte :
        [s    |-> [f.s EXCEPT !.mask_ptr = @ + 1],
         data |-> [st.data EXCEPT ![i] = byte],
         hash |-> st.hash \o <<byte>>,
         prog |-> f.prog])

RECURSIVE HashLoop(_, _, _)
\* `for byte in data.as_mut()` of apply_with_hash over data[lo..hi]
HashLoop(st, lo, hi) ==
    IF lo > hi THEN st
    ELSE IF lo = hi
    THEN Bind(Refill(st.s, st.prog), LAMBDA f : HashByte(st, lo, f))
    ELSE Bind(HashLoop(st, lo, (lo + hi) \div 2),
              LAMBDA left : HashLoop(left, ((lo + hi) \div 2) + 1, hi))

\* Stream::apply_with_hash: data is overwritten in place, hash fed
apply_with_hash(self, data, hash, prog) ==
    HashLoop([s |-> self, data |-> data, hash |-> hash, prog |-> prog],
             1, Len(data))

\* gen_salt(): what the OS random generator may hand out
Salts ==
    { [z \in 1..BLOCK |-> (z * 37 + 11) % 256],
      [z \in 1..BLOCK |-> 255 - z] }

\* a variant of derive_password that leaves the key out (C2 tells it apart)
derive_password_unkeyed(key, salt) == Argon2(<<>>, salt)

\* derive_password: Ok(key) unless the KDF fails
derive_password(key, salt) == Argon2(key, salt)

\* ===================================================== the container run
\* create_container(source, dest, passwd, settings, None) followed by
\* read_container(container, dest2, passwd2, None) on what it wrote.
VARIABLES
    pc,            \* where the run stands
    settings,      \* CryptSettings, carried over in metadata.json
    passwd,        \* key of create_container
    passwd2,       \* key of read_container
    source,        \* content of the source reader
    src_pos,       \* its cursor
    prog,          \* the Progress of create_container / encrypt
    orig_salt,     \* what gen_salt() returned
    salt,          \* encrypt's `salt`: the accumulator folded into
    key,           \* encrypt's derived key
    mac,           \* encrypt's MAC of key and source
    stream,        \* encrypt's Stream
    data_dat,      \* what encrypt has written to dest (member data.dat)
    enc_ret,       \* what encrypt returned
    salt_dat,      \* member salt.dat
    rsalt,         \* read_container's `salt`, handed to decrypt_salt and decrypt
    ds_ptr,        \* decrypt_salt's salt_ptr
    rd_pos,        \* cursor of the data.dat reader in use
    prog2,         \* the Progress of read_container / decrypt
    dkey,          \* decrypt's derived key
    dstream,       \* decrypt's Stream
    expected_mac,  \* decrypt's expected_mac
    mac_hash,      \* what decrypt's mac_hash has absorbed
    dest2,         \* what decrypt has written to its dest
    dec_ret,       \* what decrypt returned
    panic,         \* message of the panic that ended the run, or ""
    tamper         \* offset (from 1) of the byte of data.dat that was changed
                   \* between the two calls, 0 when none was

\* the Stream tests of cipher.rs (apply_and_copy, apply_implementations_equiv)
\* followed by decrypt_salt over what they produced
VARIABLES
    t_pc,          \* where the test stands
    t_args,        \* passwd, salt and settings of its Streams, the salt
                   \* accumulator it starts from
    t_in,          \* the data
    t_salt1,       \* data and salt after one apply_with_salt over all of it
    t_hash1,       \* data and hash after one apply_with_hash over all of it
    t_copy,        \* the copy_and_apply_.. under way: its Stream, the cursor
                   \* of its reader, the reads that gave bytes, what it
                   \* wrote, its accumulator
    t_fold         \* decrypt_salt under way: salt, salt_ptr, the cursor of
                   \* its reader, the reads that gave bytes

\* two Balloons built from the same arguments and stepped side by side
VARIABLES
    g_pc,          \* where the pair stands
    g_args,        \* passwd, salt, settings, and the Progress of each
    g1,            \* the first Balloon, its Progress, the blocks step() returned
    g2             \* the second

\* ------------------------------------- progress.rs: the Progress, shared
\* Clones of one Progress in the hands of several threads: the threads that
\* run an operation call inc, inc_max, set_max and set_state, another one
\* calls print_progress_bar. Every call locks the Mutex, touches the
\* ProgressState and drops the guard when it returns.
VARIABLES
    inner,         \* the ProgressState behind the Arc<Mutex<..>>
    lock,          \* the thread that holds the MutexGuard, or NoThread
    th,            \* of each thread: where it stands in its call (pc), the
                   \* calls it has left, the call under way and the value
                   \* it has read from the field it updates (tmp)
    seen,          \* what print_progress_bar has read so far
    tally          \* (not in the program) the calls that took the lock so
                   \* far: the Progress at the start, the number of inc,
                   \* the value of the last set_max (else the target at the
                   \* start), the sum of inc_max after it, the last state

prgVars == <<inner, lock, th, seen, tally>>

envVars == <<endian, debug_assertions>>

tstVars == <<t_pc, t_args, t_in, t_salt1, t_hash1, t_copy, t_fold>>

genVars == <<g_pc, g_args, g1, g2>>

auxVars == <<tstVars, genVars>>

encVars == <<prog, orig_salt, salt, key, mac, stream, data_dat, enc_ret,
             src_pos, salt_dat>>

decVars == <<passwd2, rsalt, ds_ptr, rd_pos, prog2, dkey, dstream,
             expected_mac, mac_hash, dest2, dec_ret>>

inVars == <<settings, passwd, source, tamper>>

runVars == <<inVars, encVars, decVars, pc, panic>>

\* keys the callers pass
Passwords == { <<112>>, <<112, 119>> }

\* first bytes of the payloads
PayloadStarts == {7, 255}

\* the payloads of at most n bytes: counting up from a first byte and
\* wrapping as u8, as the tests build theirs
Payloads(n) ==
    { [x \in 1..k |-> (first + x - 1) % 256] : k \in 0..n, first \in PayloadStarts }

\* a function's result not yet there / Ok(..) / Err(..)
NoRet == [kind |-> "none", salt |-> Zeros, success |-> FALSE, err |-> ""]

RetOkSalt(s) == [NoRet EXCEPT !.kind = "ok", !.salt = s]

RetOkBool(b) == [NoRet EXCEPT !.kind = "ok", !.success = b]

RetErr(e) == [NoRet EXCEPT !.kind = "err", !.err = e]

\* the numbers of bytes a read into the 8 KiB buffer may return when avail
\* bytes are left (never 0 before the end): a part that ends inside a block,
\* a whole block, all but the last byte, all
ReadSizes(avail) ==
    {n \in {40, BLOCK, avail - 1, avail} : 1 <= n /\ n <= Min(BUFFER_SIZE, avail)}

\* how many bytes of n a failing write_all may have written
PartialWrites(n) == {0, n \div 2, n - 1} \cap (0..(n - 1))

\* no container run under way
IdleRun ==
    /\ src_pos = 0
    /\ prog = Progress_new
    /\ orig_salt = Zeros
    /\ salt = Zeros
    /\ key = Zeros
    /\ mac = Zeros
    /\ stream = NoStream
    /\ data_dat = <<>>
    /\ enc_ret = NoRet
    /\ salt_dat = Zeros
    /\ passwd2 = <<>>
    /\ rsalt = Zeros
    /\ ds_ptr = 0
    /\ rd_pos = 0
    /\ prog2 = Progress_new
    /\ dkey = Zeros
    /\ dstream = NoStream
    /\ expected_mac = Zeros
    /\ mac_hash = <<>>
    /\ dest2 = <<>>
    /\ dec_ret = NoRet
    /\ panic = ""
    /\ tamper = 0

\* a caller is about to call create_container
InitRun ==
    /\ pc = "create"
    /\ settings \in [s_cost : 0..MaxSCost, t_cost : 0..MaxTCost,
                     step_delta : 0..MaxDelta]
    /\ passwd \in Passwords
    /\ source \in Payloads(MaxLen)
    /\ IdleRun

\* create_container up to the call of encrypt: the length of source sets
\* the target of the progress
CreateContainer ==
    /\ pc = "create"
    /\ prog' = set_max_data(Progress_new, Len(source))
    /\ src_pos' = 0
    /\ pc' = "enc_derive"
    /\ UNCHANGED <<orig_salt, salt, key, mac, stream, data_dat, enc_ret, salt_dat>>
    /\ UNCHANGED <<envVars, prgVars, auxVars, inVars, decVars, panic>>

\* a variant of EncDerive that notes the failure of the KDF and carries on
\* with a key of zeros (C10 tells it apart)
EncDerive_carry_on ==
    /\ pc = "enc_derive"
    /\ \E s \in Salts, kdf_ok \in BOOLEAN :
        /\ orig_salt' = s
        /\ salt' = s
        /\ IF kdf_ok
           THEN /\ key' = derive_password(passwd, s)
                /\ enc_ret' = enc_ret
           ELSE /\ key' = Zeros
                /\ enc_ret' = RetErr("Unable to derive password")
    /\ pc' = "enc_mac"
    /\ prog' = set_state(prog, "Deriving Password")
    /\ UNCHANGED <<mac, stream, data_dat, src_pos, salt_dat>>
    /\ UNCHANGED <<envVars, prgVars, auxVars, inVars, decVars, panic>>

\* encrypt, "Derive key": gen_salt and derive_password
EncDerive ==
    /\ pc = "enc_derive"
    /\ \E s \in Salts, kdf_ok \in BOOLEAN :
        /\ orig_salt' = s
        /\ salt' = s
        /\ IF kdf_ok
           THEN /\ key' = derive_password(passwd, s)
                /\ enc_ret' = enc_ret
                /\ pc' = "enc_mac"
           ELSE /\ key' = key
                /\ enc_ret' = RetErr("Unable to derive password")
                /\ pc' = "enc_failed"
    /\ prog' = set_state(prog, "Deriving Password")
    /\ UNCHANGED <<mac, stream, data_dat, src_pos, salt_dat>>
    /\ UNCHANGED <<envVars, prgVars, auxVars, inVars, decVars, panic>>

\* a variant of EncMac that leaves the source at its end (C11 tells it apart)
EncMac_no_rewind ==
    /\ pc = "enc_mac"
    /\ prog' = set_state(prog, "Calculating MAC")
    /\ mac' = Sha3_512(key \o source)
    /\ src_pos' = Len(source)
    /\ pc' = "enc_new"
    /\ UNCHANGED <<orig_salt, salt, key, stream, data_dat, enc_ret, salt_dat>>
    /\ UNCHANGED <<envVars, prgVars, auxVars, inVars, decVars, panic>>

\* encrypt, "Calculate MAC": io::copy of the whole source into the hash,
\* then source.rewind()
EncMac ==
    /\ pc = "enc_mac"
    /\ prog' = set_state(prog, "Calculating MAC")
    /\ mac' = Sha3_512(key \o source)
    /\ src_pos' = 0
    /\ pc' = "enc_new"
    /\ UNCHANGED <<orig_salt, salt, key, stream, data_dat, enc_ret, salt_dat>>
    /\ UNCHANGED <<envVars, prgVars, auxVars, inVars, decVars, panic>>

\* a read of io::copy fails part way, or the rewind does
EncMacFail ==
    /\ pc = "enc_mac"
    /\ prog' = set_state(prog, "Calculating MAC")
    /\ \E n \in 0..Len(source) : src_pos' = n
    /\ enc_ret' = RetErr("io")
    /\ pc' = "enc_failed"
    /\ UNCHANGED <<orig_salt, salt, key, mac, stream, data_dat, salt_dat>>
    /\ UNCHANGED <<envVars, prgVars, auxVars, inVars, decVars, panic>>

\* encrypt, "Initialize Stream"
EncStreamNew ==
    /\ pc = "enc_new"
    /\ \E n \in {Stream_new(key, salt, settings, prog)} :
           IF n.panic # ""
           THEN /\ panic' = n.panic
                /\ prog' = n.prog
                /\ stream' = stream
                /\ pc' = "panicked"
           ELSE /\ panic' = panic
                /\ prog' = set_state(n.prog, "Encrypting")
                /\ stream' = n.s
                /\ pc' = "enc_macblock"
    /\ UNCHANGED <<orig_salt, salt, key, mac, data_dat, enc_ret, src_pos, salt_dat>>
    /\ UNCHANGED <<envVars, prgVars, auxVars, inVars, decVars>>

\* copy_and_apply_with_salt(&mut mac, ..): the cursor over the MAC hands out
\* its 64 bytes in one read, they are written, and the next read gives 0
EncWriteMac ==
    /\ pc = "enc_macblock"
    /\ \E r \in {apply_with_salt(stream, mac, salt, prog)} :
           /\ stream' = r.s
           /\ salt' = r.salt
           /\ prog' = r.prog
           /\ data_dat' = data_dat \o r.data
    /\ pc' = "enc_copy"
    /\ UNCHANGED <<orig_salt, key, mac, enc_ret, src_pos, salt_dat>>
    /\ UNCHANGED <<envVars, prgVars, auxVars, inVars, decVars, panic>>

\* the same with dest.write_all failing after k bytes
EncWriteMacFail ==
    /\ pc = "enc_macblock"
    /\ \E r \in {apply_with_salt(stream, mac, salt, prog)} :
           /\ stream' = r.s
           /\ salt' = r.salt
           /\ prog' = r.prog
           /\ \E k \in PartialWrites(BLOCK) :
                  data_dat' = data_dat \o SubSeq(r.data, 1, k)
    /\ enc_ret' = RetErr("io")
    /\ pc' = "enc_failed"
    /\ UNCHANGED <<orig_salt, key, mac, src_pos, salt_dat>>
    /\ UNCHANGED <<envVars, prgVars, auxVars, inVars, decVars, panic>>

\* one turn of the loop of copy_and_apply_with_salt(source, ..): a read of
\* n bytes, apply_with_salt on them, write_all
EncCopy ==
    /\ pc = "enc_copy"
    /\ \E n \in ReadSizes(Len(source) - src_pos) :
        \E r \in {apply_with_salt(stream, SubSeq(source, src_pos + 1, src_pos + n),
                                 salt, prog)} :
            /\ stream' = r.s
            /\ salt' = r.salt
            /\ prog' = r.prog
            /\ data_dat' = data_dat \o r.data
            /\ src_pos' = src_pos + n
    /\ UNCHANGED <<pc, orig_salt, key, mac, enc_ret, salt_dat>>
    /\ UNCHANGED <<envVars, prgVars, auxVars, inVars, decVars, panic>>

\* the same with dest.write_all failing after k bytes
EncCopyWriteFail ==
    /\ pc = "enc_copy"
    /\ \E n \in ReadSizes(Len(source) - src_pos) :
        \E r \in {apply_with_salt(stream, SubSeq(source, src_pos + 1, src_pos + n),
                                 salt, prog)} :
            /\ stream' = r.s
            /\ salt' = r.salt
            /\ prog' = r.prog
            /\ \E k \in PartialWrites(n) :
                   data_dat' = data_dat \o SubSeq(r.data, 1, k)
            /\ src_pos' = src_pos + n
    /\ enc_ret' = RetErr("io")
    /\ pc' = "enc_failed"
    /\ UNCHANGED <<orig_salt, key, mac, salt_dat>>
    /\ UNCHANGED <<envVars, prgVars, auxVars, inVars, decVars, panic>>

\* src.read fails
EncCopyReadFail ==
    /\ pc = "enc_copy"
    /\ enc_ret' = RetErr("io")
    /\ pc' = "enc_failed"
    /\ UNCHANGED <<prog, orig_salt, salt, key, mac, stream, data_dat, src_pos, salt_dat>>
    /\ UNCHANGED <<envVars, prgVars, auxVars, inVars, decVars, panic>>

\* the read at the end of source gives 0: the loop breaks, encrypt returns
\* Ok(salt)
EncCopyEof ==
    /\ pc = "enc_copy"
    /\ src_pos = Len(source)
    /\ enc_ret' = RetOkSalt(salt)
    /\ pc' = "enc_done"
    /\ UNCHANGED <<prog, orig_salt, salt, key, mac, stream, data_dat, src_pos, salt_dat>>
    /\ UNCHANGED <<envVars, prgVars, auxVars, inVars, decVars, panic>>

\* create_container after encrypt: the salt returned goes to salt.dat
FinishContainer ==
    /\ pc = "enc_done"
    /\ salt_dat' = enc_ret.salt
    /\ pc' = "read"
    /\ UNCHANGED <<prog, orig_salt, salt, key, mac, stream, data_dat, enc_ret, src_pos>>
    /\ UNCHANGED <<envVars, prgVars, auxVars, inVars, decVars, panic>>

\* the offsets of a data.dat of n bytes at which a byte may be changed: the
\* ends of the MAC block and the end of the payload
TamperAt(n) == {1, BLOCK, n}

\* what is XORed into the byte that is changed
Flips == {1, 255}

\* between create_container and read_container one byte of the member
\* data.dat of the container is changed; salt.dat and metadata.json are
\* kept (zip.by_name("data.dat") hands out whatever the archive holds)
Tamper ==
    /\ pc = "read"
    /\ tamper = 0
    /\ \E at \in TamperAt(Len(data_dat)) : \E flip \in Flips :
           /\ data_dat' = [data_dat EXCEPT ![at] = BitXor(@, flip)]
           /\ tamper' = at
    /\ UNCHANGED <<pc, settings, passwd, source, prog, orig_salt, salt, key, mac,
                   stream, enc_ret, src_pos, salt_dat>>
    /\ UNCHANGED <<envVars, prgVars, auxVars, decVars, panic>>

\* read_container up to the first read of decrypt_salt: the settings come
\* from metadata.json, the 64 bytes of salt.dat are read into `salt`
ReadContainer ==
    /\ pc = "read"
    /\ \E p \in Passwords : passwd2' = p
    /\ prog2' = Progress_new
    /\ rsalt' = salt_dat
    /\ ds_ptr' = 0
    /\ rd_pos' = 0
    /\ pc' = "ds_loop"
    /\ UNCHANGED <<dkey, dstream, expected_mac, mac_hash, dest2, dec_ret>>
    /\ UNCHANGED <<envVars, prgVars, auxVars, inVars, encVars, panic>>

\* a variant of FoldByte whose cursor stops at the last index instead of
\* wrapping (C3 tells it apart once the data is longer than a block)
FoldByte_saturating(st, item) ==
    [salt     |-> [st.salt EXCEPT ![Min(st.salt_ptr, BLOCK - 1) + 1] = BitXor(@, item)],
     salt_ptr |-> st.salt_ptr + 1]

\* the body of the loop of decrypt_salt for one byte
FoldByte(st, item) ==
    [salt     |-> [st.salt EXCEPT ![(st.salt_ptr % BLOCK) + 1] = BitXor(@, item)],
     salt_ptr |-> st.salt_ptr + 1]

RECURSIVE Fold(_, _, _, _)
\* `for item in buffer.iter().take(n)` of decrypt_salt over bytes[lo..hi]
Fold(st, bytes, lo, hi) ==
    IF lo > hi THEN st
    ELSE IF lo = hi THEN FoldByte(st, bytes[lo])
    ELSE Bind(Fold(st, bytes, lo, (lo + hi) \div 2),
              LAMBDA left : Fold(left, bytes, ((lo + hi) \div 2) + 1, hi))

\* one turn of the loop of decrypt_salt: a read of n bytes, folded
DecryptSalt ==
    /\ pc = "ds_loop"
    /\ \E n \in ReadSizes(Len(data_dat) - rd_pos) :
        \E f \in {Fold([salt |-> rsalt, salt_ptr |-> ds_ptr],
                      SubSeq(data_dat, rd_pos + 1, rd_pos + n), 1, n)} :
            /\ rsalt' = f.salt
            /\ ds_ptr' = f.salt_ptr
            /\ rd_pos' = rd_pos + n
    /\ UNCHANGED <<pc, passwd2, prog2, dkey, dstream, expected_mac, mac_hash,
                   dest2, dec_ret>>
    /\ UNCHANGED <<envVars, prgVars, auxVars, inVars, encVars, panic>>

\* source.read fails in decrypt_salt: read_container returns the error
DecryptSaltReadFail ==
    /\ pc = "ds_loop"
    /\ pc' = "read_failed"
    /\ UNCHANGED <<envVars, prgVars, auxVars, inVars, encVars, decVars, panic>>

\* a variant of DecryptSaltEof that lets decrypt_salt return before the end
\* of data.dat (C12 tells it apart)
DecryptSaltEof_early ==
    /\ pc = "ds_loop"
    /\ rd_pos' = 0
    /\ prog2' = set_max_data(prog2, Len(data_dat))
    /\ pc' = "dec_derive"
    /\ UNCHANGED <<passwd2, rsalt, ds_ptr, dkey, dstream, expected_mac, mac_hash,
                   dest2, dec_ret>>
    /\ UNCHANGED <<envVars, prgVars, auxVars, inVars, encVars, panic>>

\* the read at the end gives 0: decrypt_salt returns; read_container opens
\* data.dat again, sets the target from its size and calls decrypt
DecryptSaltEof ==
    /\ pc = "ds_loop"
    /\ rd_pos = Len(data_dat)
    /\ rd_pos' = 0
    /\ prog2' = set_max_data(prog2, Len(data_dat))
    /\ pc' = "dec_derive"
    /\ UNCHANGED <<passwd2, rsalt, ds_ptr, dkey, dstream, expected_mac, mac_hash,
                   dest2, dec_ret>>
    /\ UNCHANGED <<envVars, prgVars, auxVars, inVars, encVars, panic>>

\* decrypt: derive_password
DecDerive ==
    /\ pc = "dec_derive"
    /\ prog2' = set_state(prog2, "Deriving Password")
    /\ \E kdf_ok \in BOOLEAN :
        IF kdf_ok
        THEN /\ dkey' = derive_password(passwd2, rsalt)
             /\ dec_ret' = dec_ret
             /\ pc' = "dec_new"
        ELSE /\ dkey' = dkey
             /\ dec_ret' = RetErr("Unable to derive password")
             /\ pc' = "dec_failed"
    /\ UNCHANGED <<passwd2, rsalt, ds_ptr, rd_pos, dstream, expected_mac,
                   mac_hash, dest2>>
    /\ UNCHANGED <<envVars, prgVars, auxVars, inVars, encVars, panic>>

\* decrypt: Stream::new
DecStreamNew ==
    /\ pc = "dec_new"
    /\ \E n \in {Stream_new(dkey, rsalt, settings, prog2)} :
           IF n.panic # ""
           THEN /\ panic' = n.panic
                /\ prog2' = n.prog
                /\ dstream' = dstream
                /\ pc' = "panicked"
           ELSE /\ panic' = panic
                /\ prog2' = set_state(n.prog, "Decrypting")
                /\ dstream' = n.s
                /\ pc' = "dec_mac"
    /\ UNCHANGED <<passwd2, rsalt, ds_ptr, rd_pos, dkey, expected_mac, mac_hash,
                   dest2, dec_ret>>
    /\ UNCHANGED <<envVars, prgVars, auxVars, inVars, encVars>>

\* decrypt: read_exact of the MAC block, apply_with_salt on it with a salt
\* of zeros that is dropped, and the hash started with the key
DecReadMac ==
    /\ pc = "dec_mac"
    /\ IF Len(data_dat) - rd_pos < BLOCK
       THEN /\ dec_ret' = RetErr("io")
            /\ pc' = "dec_failed"
            /\ UNCHANGED <<rd_pos, prog2, dstream, expected_mac, mac_hash>>
       ELSE \E r \in {apply_with_salt(dstream,
                                     SubSeq(data_dat, rd_pos + 1, rd_pos + BLOCK),
                                     Zeros, prog2)} :
                /\ dstream' = r.s
                /\ prog2' = r.prog
                /\ expected_mac' = r.data
                /\ mac_hash' = dkey
                /\ rd_pos' = rd_pos + BLOCK
                /\ pc' = "dec_copy"
                /\ dec_ret' = dec_ret
    /\ UNCHANGED <<passwd2, rsalt, ds_ptr, dkey, dest2>>
    /\ UNCHANGED <<envVars, prgVars, auxVars, inVars, encVars, panic>>

\* a read of read_exact fails
DecReadMacFail ==
    /\ pc = "dec_mac"
    /\ dec_ret' = RetErr("io")
    /\ pc' = "dec_failed"
    /\ UNCHANGED <<passwd2, rsalt, ds_ptr, rd_pos, prog2, dkey, dstream,
                   expected_mac, mac_hash, dest2>>
    /\ UNCHANGED <<envVars, prgVars, auxVars, inVars, encVars, panic>>

\* one turn of the loop of copy_and_apply_with_hash: a read of n bytes,
\* apply_with_hash on them, write_all
DecCopy ==
    /\ pc = "dec_copy"
    /\ \E n \in ReadSizes(Len(data_dat) - rd_pos) :
        \E r \in {apply_with_hash(dstream, SubSeq(data_dat, rd_pos + 1, rd_pos + n),
                                 mac_hash, prog2)} :
            /\ dstream' = r.s
            /\ mac_hash' = r.hash
            /\ prog2' = r.prog
            /\ dest2' = dest2 \o r.data
            /\ rd_pos' = rd_pos + n
    /\ UNCHANGED <<pc, passwd2, rsalt, ds_ptr, dkey, expected_mac, dec_ret>>
    /\ UNCHANGED <<envVars, prgVars, auxVars, inVars, encVars, panic>>

\* the same with dest.write_all failing after k bytes
DecCopyWriteFail ==
    /\ pc = "dec_copy"
    /\ \E n \in ReadSizes(Len(data_dat) - rd_pos) :
        \E r \in {apply_with_hash(dstream, SubSeq(data_dat, rd_pos + 1, rd_pos + n),
                                 mac_hash, prog2)} :
            /\ dstream' = r.s
            /\ mac_hash' = r.hash
            /\ prog2' = r.prog
            /\ \E k \in PartialWrites(n) : dest2' = dest2 \o SubSeq(r.data, 1, k)
            /\ rd_pos' = rd_pos + n
    /\ dec_ret' = RetErr("io")
    /\ pc' = "dec_failed"
    /\ UNCHANGED <<passwd2, rsalt, ds_ptr, dkey, expected_mac>>
    /\ UNCHANGED <<envVars, prgVars, auxVars, inVars, encVars, panic>>

\* a variant of DecCopyReadFail that empties dest on the way out (C20
\* tells it apart)
DecCopyReadFail_rollback ==
    /\ pc = "dec_copy"
    /\ dec_ret' = RetErr("io")
    /\ dest2' = <<>>
    /\ pc' = "dec_failed"
    /\ UNCHANGED <<passwd2, rsalt, ds_ptr, rd_pos, prog2, dkey, dstream,
                   expected_mac, mac_hash>>
    /\ UNCHANGED <<envVars, prgVars, auxVars, inVars, encVars, panic>>

\* src.read fails
DecCopyReadFail ==
    /\ pc = "dec_copy"
    /\ dec_ret' = RetErr("io")
    /\ pc' = "dec_failed"
    /\ UNCHANGED <<passwd2, rsalt, ds_ptr, rd_pos, prog2, dkey, dstream,
                   expected_mac, mac_hash, dest2>>
    /\ UNCHANGED <<envVars, prgVars, auxVars, inVars, encVars, panic>>

\* a variant of mac_verdict that makes a mismatch an error (C6 tells it
\* apart)
mac_verdict_or_error(expected, actual) ==
    IF expected = actual THEN RetOkBool(TRUE) ELSE RetErr("MAC mismatch")

\* a variant of mac_verdict that compares the lengths only (C21 tells it
\* apart)
mac_verdict_lenient(expected, actual) == RetOkBool(Len(expected) = Len(actual))

\* decrypt's last lines: Ok(expected_mac == mac)
mac_verdict(expected, actual) == RetOkBool(expected = actual)

\* the read at the end gives 0: the hash is finalized and compared with
\* expected_mac, decrypt returns
DecCopyEof ==
    /\ pc = "dec_copy"
    /\ rd_pos = Len(data_dat)
    /\ dec_ret' = mac_verdict(expected_mac, Sha3_512(mac_hash))
    /\ pc' = "dec_done"
    /\ UNCHANGED <<passwd2, rsalt, ds_ptr, rd_pos, prog2, dkey, dstream,
                   expected_mac, mac_hash, dest2>>
    /\ UNCHANGED <<envVars, prgVars, auxVars, inVars, encVars, panic>>


\* ================================================== the tests of Stream
\* largest number of whole blocks in the data of the tests
MaxBlocks == 1
\* largest number of bytes after the last whole block
MaxRest == 2

\* the data: counting up and wrapping as u8, as `(0..255).collect()` and
\* `(0..10^6).map(|b| b as u8)` do, in lengths round the block boundaries
TestData ==
    { [x \in 1..(BLOCK * q + r) |-> (x - 1) % 256] :
          q \in 0..MaxBlocks, r \in 0..MaxRest }

\* the salt the tests build their Streams from
TestSalt == <<1, 2, 3>>

\* the password the tests build their Streams from: b"123"
TestPasswd == <<49, 50, 51>>

\* the settings of the tests: the smallest the debug assertions let pass,
\* and the largest drawn (default_for_testing is far larger)
TestSettings ==
    { [s_cost |-> 1, t_cost |-> 1, step_delta |-> 1],
      [s_cost |-> MaxSCost, t_cost |-> MaxTCost, step_delta |-> MaxDelta] }

\* the Stream of a test: Stream::new(passwd, salt.clone(), settings,
\* Progress::new())
TestStream ==
    Stream_new(t_args.passwd, t_args.salt, t_args.settings, Progress_new).s

\* no test under way
IdleTest ==
    /\ t_pc = "idle"
    /\ t_args = [passwd |-> <<>>, salt |-> <<>>, acc |-> Zeros,
                 settings |-> [s_cost |-> 1, t_cost |-> 1, step_delta |-> 1]]
    /\ t_in = <<>>
    /\ t_salt1 = [data |-> <<>>, salt |-> Zeros]
    /\ t_hash1 = [data |-> <<>>, hash |-> <<>>]
    /\ t_copy = [s |-> NoStream, pos |-> 0, reads |-> 0, data |-> <<>>, acc |-> <<>>]
    /\ t_fold = [salt |-> Zeros, salt_ptr |-> 0, pos |-> 0, reads |-> 0]

InitTest ==
    /\ t_pc = "new"
    /\ t_args \in [passwd : {TestPasswd}, salt : {TestSalt},
                   acc : Salts \cup {Zeros}, settings : TestSettings]
    /\ t_in \in TestData
    /\ t_salt1 = [data |-> <<>>, salt |-> Zeros]
    /\ t_hash1 = [data |-> <<>>, hash |-> <<>>]
    /\ t_copy = [s |-> NoStream, pos |-> 0, reads |-> 0, data |-> <<>>, acc |-> <<>>]
    /\ t_fold = [salt |-> Zeros, salt_ptr |-> 0, pos |-> 0, reads |-> 0]

\* apply_and_copy up to the call of copy_and_apply_with_salt: s1 has
\* applied itself to all the data at once, s2 is about to copy
TestApplySalt ==
    /\ t_pc = "new"
    /\ \E r \in {apply_with_salt(TestStream, t_in, t_args.acc, Progress_new)} :
           t_salt1' = [data |-> r.data, salt |-> r.salt]
    /\ t_copy' = [s |-> TestStream, pos |-> 0, reads |-> 0, data |-> <<>>, acc |-> t_args.acc]
    /\ t_pc' = "copy_salt"
    /\ UNCHANGED <<t_args, t_in, t_hash1, t_fold>>
    /\ UNCHANGED <<envVars, prgVars, genVars, runVars>>

\* one turn of the loop of copy_and_apply_with_salt: a read of n bytes,
\* apply_with_salt on them, write_all
TestCopySalt ==
    /\ t_pc = "copy_salt"
    /\ \E n \in ReadSizes(Len(t_in) - t_copy.pos) :
        \E r \in {apply_with_salt(t_copy.s,
                                  SubSeq(t_in, t_copy.pos + 1, t_copy.pos + n),
                                  t_copy.acc, Progress_new)} :
            t_copy' = [s     |-> r.s,
                       pos   |-> t_copy.pos + n,
                       reads |-> t_copy.reads + 1,
                       data |-> t_copy.data \o r.data,
                       acc  |-> r.salt]
    /\ UNCHANGED <<t_pc, t_args, t_in, t_salt1, t_hash1, t_fold>>
    /\ UNCHANGED <<envVars, prgVars, genVars, runVars>>

\* the read at the end gives 0: copy_and_apply_with_salt returns
TestCopySaltEof ==
    /\ t_pc = "copy_salt"
    /\ t_copy.pos = Len(t_in)
    /\ t_pc' = "copied_salt"
    /\ UNCHANGED <<t_args, t_in, t_salt1, t_hash1, t_copy, t_fold>>
    /\ UNCHANGED <<envVars, prgVars, genVars, runVars>>

\* apply_implementations_equiv: a Stream built alike has applied
\* apply_with_hash to the data at once; another is about to copy
TestApplyHash ==
    /\ t_pc = "copied_salt"
    /\ \E r \in {apply_with_hash(TestStream, t_in, <<>>, Progress_new)} :
           t_hash1' = [data |-> r.data, hash |-> r.hash]
    /\ t_copy' = [s |-> TestStream, pos |-> 0, reads |-> 0, data |-> <<>>, acc |-> <<>>]
    /\ t_pc' = "copy_hash"
    /\ UNCHANGED <<t_args, t_in, t_salt1, t_fold>>
    /\ UNCHANGED <<envVars, prgVars, genVars, runVars>>

\* one turn of the loop of copy_and_apply_with_hash
TestCopyHash ==
    /\ t_pc = "copy_hash"
    /\ \E n \in ReadSizes(Len(t_in) - t_copy.pos) :
        \E r \in {apply_with_hash(t_copy.s,
                                  SubSeq(t_in, t_copy.pos + 1, t_copy.pos + n),
                                  t_copy.acc, Progress_new)} :
            t_copy' = [s     |-> r.s,
                       pos   |-> t_copy.pos + n,
                       reads |-> t_copy.reads + 1,
                       data |-> t_copy.data \o r.data,
                       acc  |-> r.hash]
    /\ UNCHANGED <<t_pc, t_args, t_in, t_salt1, t_hash1, t_fold>>
    /\ UNCHANGED <<envVars, prgVars, genVars, runVars>>

\* the read at the end gives 0: copy_and_apply_with_hash returns; the salt
\* s1 folded goes to decrypt_salt with the data s1 produced
TestCopyHashEof ==
    /\ t_pc = "copy_hash"
    /\ t_copy.pos = Len(t_in)
    /\ t_fold' = [salt |-> t_salt1.salt, salt_ptr |-> 0, pos |-> 0, reads |-> 0]
    /\ t_pc' = "fold"
    /\ UNCHANGED <<t_args, t_in, t_salt1, t_hash1, t_copy>>
    /\ UNCHANGED <<envVars, prgVars, genVars, runVars>>

\* one turn of the loop of decrypt_salt: a read of n bytes, folded
TestFold ==
    /\ t_pc = "fold"
    /\ \E n \in ReadSizes(Len(t_salt1.data) - t_fold.pos) :
        \E f \in {Fold([salt |-> t_fold.salt, salt_ptr |-> t_fold.salt_ptr],
                       SubSeq(t_salt1.data, t_fold.pos + 1, t_fold.pos + n), 1, n)} :
            t_fold' = [salt |-> f.salt, salt_ptr |-> f.salt_ptr,
                       pos |-> t_fold.pos + n, reads |-> t_fold.reads + 1]
    /\ UNCHANGED <<t_pc, t_args, t_in, t_salt1, t_hash1, t_copy>>
    /\ UNCHANGED <<envVars, prgVars, genVars, runVars>>

\* the read at the end gives 0: decrypt_salt returns
TestFoldEof ==
    /\ t_pc = "fold"
    /\ t_fold.pos = Len(t_salt1.data)
    /\ t_pc' = "done"
    /\ UNCHANGED <<t_args, t_in, t_salt1, t_hash1, t_copy, t_fold>>
    /\ UNCHANGED <<envVars, prgVars, genVars, runVars>>

\* ================================================= two Balloons side by side
\* most calls of step() on each Balloon
MaxSteps == 3

\* Progress objects a caller may hand over: a new one, one in use
Progresses ==
    { Progress_new, [progress |-> 3, out_of |-> 7, state |-> "Encrypting"] }

NoGen == [b |-> NoBalloon, prog |-> Progress_new, out |-> <<>>]

IdleGen ==
    /\ g_pc = "idle"
    /\ g_args = [passwd |-> <<>>, salt |-> <<>>,
                 settings |-> [s_cost |-> 1, t_cost |-> 1, step_delta |-> 1],
                 prog1 |-> Progress_new, prog2 |-> Progress_new]
    /\ g1 = NoGen
    /\ g2 = NoGen

InitGen ==
    /\ g_pc = "new"
    /\ g_args \in [passwd : Passwords, salt : {TestSalt},
                   settings : [s_cost : 0..MaxSCost, t_cost : 0..MaxTCost,
                               step_delta : 0..MaxDelta],
                   prog1 : Progresses, prog2 : Progresses]
    /\ g1 = NoGen
    /\ g2 = NoGen

\* Balloon::new(passwd, salt, s_cost, t_cost, step_delta, prog), with
\* Progress p
GenBalloon(p) ==
    Balloon_new(g_args.passwd, g_args.salt, g_args.settings.s_cost,
                g_args.settings.t_cost, g_args.settings.step_delta, p)

\* both Balloons are built, each with its own Progress
GenNew ==
    /\ g_pc = "new"
    /\ \E n1 \in {GenBalloon(g_args.prog1)}, n2 \in {GenBalloon(g_args.prog2)} :
        /\ g1' = [b |-> n1.b, prog |-> n1.prog, out |-> <<>>]
        /\ g2' = [b |-> n2.b, prog |-> n2.prog, out |-> <<>>]
        /\ g_pc' = IF n1.panic # "" \/ n2.panic # "" THEN "panicked" ELSE "step"
    /\ UNCHANGED g_args
    /\ UNCHANGED <<envVars, prgVars, tstVars, runVars>>

\* g.step(prog): the block returned is kept
GenStep(g) ==
    LET r == step(g.b, g.prog)
    IN  [b |-> r.b, prog |-> r.prog, out |-> Append(g.out, r.res)]

\* the first Balloon steps
GenStep1 ==
    /\ g_pc = "step"
    /\ Len(g1.out) < MaxSteps
    /\ g1' = GenStep(g1)
    /\ UNCHANGED <<g_pc, g_args, g2>>
    /\ UNCHANGED <<envVars, prgVars, tstVars, runVars>>

\* the second Balloon steps
GenStep2 ==
    /\ g_pc = "step"
    /\ Len(g2.out) < MaxSteps
    /\ g2' = GenStep(g2)
    /\ UNCHANGED <<g_pc, g_args, g1>>
    /\ UNCHANGED <<envVars, prgVars, tstVars, runVars>>

\* ------------------------------------- progress.rs: the Progress, shared
\* how many calls a thread of an operation makes
MaxCalls == 2

NoThread == 0

Workers == {1, 2}

Observer == 3

Threads == Workers \cup {Observer}

NoCall == [op |-> "", n |-> 0, text |-> ""]

\* the calls a thread of an operation may make
MutatorCalls ==
    { [op |-> "inc", n |-> 0, text |-> ""],
      [op |-> "inc_max", n |-> 2, text |-> ""],
      [op |-> "set_max", n |-> 5, text |-> ""],
      [op |-> "set_state", n |-> 0, text |-> "Encrypting"] }

\* print_progress_bar: get_state, percentage, get_count, get_max
ObserverCalls ==
    << [op |-> "get_state", n |-> 0, text |-> ""],
       [op |-> "percentage", n |-> 0, text |-> ""],
       [op |-> "get_count", n |-> 0, text |-> ""],
       [op |-> "get_max", n |-> 0, text |-> ""] >>

NoSeen == [state |-> "?", ratio |-> <<>>, count |-> -1, max |-> -1]

\* no Progress shared between threads
IdleProg ==
    /\ inner = Progress_new
    /\ lock = NoThread
    /\ th = [t \in Threads |-> [pc |-> "idle", left |-> 0, call |-> NoCall, tmp |-> 0]]
    /\ seen = NoSeen
    /\ tally = [start |-> Progress_new, incs |-> 0, last_max |-> 1, raised |-> 0,
                state |-> ""]

\* a Progress, new or in use, cloned into the threads
InitProg ==
    /\ inner \in Progresses
    /\ lock = NoThread
    /\ th = [t \in Threads |->
                [pc   |-> "idle",
                 left |-> IF t = Observer THEN Len(ObserverCalls) ELSE MaxCalls,
                 call |-> NoCall,
                 tmp  |-> 0]]
    /\ seen = NoSeen
    /\ tally = [start |-> inner, incs |-> 0, last_max |-> inner.out_of,
                raised |-> 0, state |-> inner.state]

\* the calls thread t may make next
CallsOfThread(t) ==
    IF t = Observer
    THEN {ObserverCalls[Len(ObserverCalls) - th[t].left + 1]}
    ELSE MutatorCalls

\* where a call goes once it holds the guard: inc and inc_max read the
\* field they add to, the getters read theirs, set_max and set_state only
\* write
AfterLock(call) ==
    IF call.op \in {"set_max", "set_state"} THEN "store" ELSE "load"

\* the tally with one more call
Tallied(call) ==
    CASE call.op = "inc"       -> [tally EXCEPT !.incs = @ + 1]
      [] call.op = "inc_max"   -> [tally EXCEPT !.raised = @ + call.n]
      [] call.op = "set_max"   -> [tally EXCEPT !.last_max = call.n, !.raised = 0]
      [] call.op = "set_state" -> [tally EXCEPT !.state = call.text]
      [] OTHER                 -> tally

\* a variant of Acquire that does not wait for the Mutex (C25 tells it
\* apart)
Acquire_unguarded(t) ==
    /\ th[t].pc = "idle"
    /\ th[t].left > 0
    /\ \E call \in CallsOfThread(t) :
           /\ th' = [th EXCEPT ![t] = [pc   |-> AfterLock(call),
                                       left |-> th[t].left - 1,
                                       call |-> call,
                                       tmp  |-> 0]]
           /\ tally' = Tallied(call)
    /\ lock' = t
    /\ UNCHANGED <<inner, seen>>
    /\ UNCHANGED <<envVars, auxVars, runVars>>

\* thread t calls a method of its clone: self.inner.lock().unwrap() returns
\* once no other thread holds the guard
Acquire(t) ==
    /\ th[t].pc = "idle"
    /\ th[t].left > 0
    /\ lock = NoThread
    /\ \E call \in CallsOfThread(t) :
           /\ th' = [th EXCEPT ![t] = [pc   |-> AfterLock(call),
                                       left |-> th[t].left - 1,
                                       call |-> call,
                                       tmp  |-> 0]]
           /\ tally' = Tallied(call)
    /\ lock' = t
    /\ UNCHANGED <<inner, seen>>
    /\ UNCHANGED <<envVars, auxVars, runVars>>

\* what print_progress_bar has read, with the result of one more getter
Seen(call) ==
    CASE call.op = "get_state"  -> [seen EXCEPT !.state = inner.state]
      [] call.op = "percentage" -> [seen EXCEPT !.ratio = <<inner.progress, inner.out_of>>]
      [] call.op = "get_count"  -> [seen EXCEPT !.count = inner.progress]
      [] call.op = "get_max"    -> [seen EXCEPT !.max = inner.out_of]
      [] OTHER                  -> seen

\* the read of `inner.progress += 1` and of `inner.out_of += inc`, and the
\* read of a getter, which is all a getter does
Load(t) ==
    /\ th[t].pc = "load"
    /\ IF th[t].call.op \in {"inc", "inc_max"}
       THEN /\ th' = [th EXCEPT ![t].pc = "store",
                                ![t].tmp = IF th[t].call.op = "inc"
                                           THEN inner.progress ELSE inner.out_of]
            /\ seen' = seen
       ELSE /\ th' = [th EXCEPT ![t].pc = "unlock"]
            /\ seen' = Seen(th[t].call)
    /\ UNCHANGED <<inner, lock, tally>>
    /\ UNCHANGED <<envVars, auxVars, runVars>>

\* the ProgressState after the write of a call that has read tmp
Stored(call, tmp) ==
    CASE call.op = "inc"       -> inc([inner EXCEPT !.progress = tmp])
      [] call.op = "inc_max"   -> inc_max([inner EXCEPT !.out_of = tmp], call.n)
      [] call.op = "set_max"   -> set_max(inner, call.n)
      [] call.op = "set_state" -> set_state(inner, call.text)

\* the write of the one field the call updates
Store(t) ==
    /\ th[t].pc = "store"
    /\ inner' = Stored(th[t].call, th[t].tmp)
    /\ th' = [th EXCEPT ![t].pc = "unlock"]
    /\ UNCHANGED <<lock, seen, tally>>
    /\ UNCHANGED <<envVars, auxVars, runVars>>

\* a variant of Unlock whose guard outlives the call (C23 tells it apart)
Unlock_kept(t) ==
    /\ th[t].pc = "unlock"
    /\ th' = [th EXCEPT ![t].pc = "idle", ![t].call = NoCall, ![t].tmp = 0]
    /\ UNCHANGED <<inner, lock, seen, tally>>
    /\ UNCHANGED <<envVars, auxVars, runVars>>

\* the method returns: the guard is dropped
Unlock(t) ==
    /\ th[t].pc = "unlock"
    /\ lock' = IF lock = t THEN NoThread ELSE lock
    /\ th' = [th EXCEPT ![t].pc = "idle", ![t].call = NoCall, ![t].tmp = 0]
    /\ UNCHANGED <<inner, seen, tally>>
    /\ UNCHANGED <<envVars, auxVars, runVars>>

\* some thread takes the Mutex
Acquires == \E t \in Threads : Acquire(t)

Loads == \E t \in Threads : Load(t)

Stores == \E t \in Threads : Store(t)

Unlocks == \E t \in Threads : Unlock(t)

\* ========================================================= specifications
vars == <<envVars, auxVars, runVars, prgVars>>

InitEnv ==
    /\ endian \in {"little", "big"}
    /\ debug_assertions \in BOOLEAN

\* the container run
Init ==
    /\ InitEnv
    /\ InitRun
    /\ IdleTest
    /\ IdleGen
    /\ IdleProg

Next ==
    \/ CreateContainer
    \/ EncDerive
    \/ EncMac
    \/ EncMacFail
    \/ EncStreamNew
    \/ EncWriteMac
    \/ EncWriteMacFail
    \/ EncCopy
    \/ EncCopyWriteFail
    \/ EncCopyReadFail
    \/ EncCopyEof
    \/ FinishContainer
    \/ ReadContainer
    \/ DecryptSalt
    \/ DecryptSaltReadFail
    \/ DecryptSaltEof
    \/ DecDerive
    \/ DecStreamNew
    \/ DecReadMac
    \/ DecReadMacFail
    \/ DecCopy
    \/ DecCopyWriteFail
    \/ DecCopyReadFail
    \/ DecCopyEof

Spec == Init /\ [][Next]_vars

\* the container run under settings the debug assertions let pass, with
\* data.dat open to a change between the two calls
TamperInit ==
    /\ InitEnv
    /\ pc = "create"
    /\ settings \in TestSettings
    /\ passwd \in Passwords
    /\ source \in Payloads(MaxLen)
    /\ IdleRun
    /\ IdleTest
    /\ IdleGen
    /\ IdleProg

TamperNext ==
    \/ CreateContainer
    \/ EncDerive
    \/ EncMac
    \/ EncMacFail
    \/ EncStreamNew
    \/ EncWriteMac
    \/ EncWriteMacFail
    \/ EncCopy
    \/ EncCopyWriteFail
    \/ EncCopyReadFail
    \/ EncCopyEof
    \/ FinishContainer
    \/ Tamper
    \/ ReadContainer
    \/ DecryptSalt
    \/ DecryptSaltReadFail
    \/ DecryptSaltEof
    \/ DecDerive
    \/ DecStreamNew
    \/ DecReadMac
    \/ DecReadMacFail
    \/ DecCopy
    \/ DecCopyWriteFail
    \/ DecCopyReadFail
    \/ DecCopyEof

TamperSpec == TamperInit /\ [][TamperNext]_vars

\* no container run at all
NoRun ==
    /\ pc = "idle"
    /\ settings = [s_cost |-> 1, t_cost |-> 1, step_delta |-> 1]
    /\ passwd = <<>>
    /\ source = <<>>
    /\ IdleRun

\* the tests of Stream
TestInit ==
    /\ InitEnv
    /\ NoRun
    /\ InitTest
    /\ IdleGen
    /\ IdleProg

TestNext ==
    \/ TestApplySalt
    \/ TestCopySalt
    \/ TestCopySaltEof
    \/ TestApplyHash
    \/ TestCopyHash
    \/ TestCopyHashEof
    \/ TestFold
    \/ TestFoldEof

TestSpec == TestInit /\ [][TestNext]_vars

\* the two Balloons
GenInit ==
    /\ InitEnv
    /\ NoRun
    /\ IdleTest
    /\ InitGen
    /\ IdleProg

GenNext ==
    \/ GenNew
    \/ GenStep1
    \/ GenStep2

GenSpec == GenInit /\ [][GenNext]_vars

\* the shared Progress
ProgInit ==
    /\ InitEnv
    /\ NoRun
    /\ IdleTest
    /\ IdleGen
    /\ InitProg

ProgNext ==
    \/ Acquires
    \/ Loads
    \/ Stores
    \/ Unlocks

ProgSpec == ProgInit /\ [][ProgNext]_vars

\* ================================================================ claims
\* all three fields of the settings are positive
Positive(st) == st.s_cost > 0 /\ st.t_cost > 0 /\ st.step_delta > 0

\* C1: when encrypt, decrypt_salt over the whole ciphertext and decrypt with
\* the same password have run under settings with all fields positive,
\* decrypt has returned Ok(true) and its destination holds the payload
C1_RoundTrip ==
    (pc = "dec_done" /\ passwd2 = passwd /\ Positive(settings))
        => (dec_ret = RetOkBool(TRUE) /\ dest2 = source)

C1_Witness ==
    /\ pc = "dec_done"
    /\ passwd2 = passwd
    /\ Positive(settings)
    /\ Len(source) > 0
    /\ dest2 = source

\* C2: when decrypt has run with a password other than the one of encrypt,
\* it has returned Ok(false) and its destination holds as many bytes as the
\* ciphertext less the 64 of the MAC block, the length of the payload
C2_WrongPassword ==
    (pc = "dec_done" /\ passwd2 # passwd)
        => /\ dec_ret = RetOkBool(FALSE)
           /\ Len(dest2) = Len(data_dat) - BLOCK
           /\ Len(dest2) = Len(source)

C2_Witness ==
    /\ pc = "dec_done"
    /\ passwd2 # passwd
    /\ Len(source) > 0
    /\ dec_ret = RetOkBool(FALSE)

\* C3: when decrypt_salt has read all of the data apply_with_salt produced,
\* in reads of whatever sizes, the salt it was given (the original salt
\* folded by apply_with_salt) is the original salt again
C3_FoldInverted ==
    t_pc = "done" => t_fold.salt = t_args.acc

C3_Witness ==
    /\ t_pc = "done"
    /\ Len(t_salt1.data) > BLOCK
    /\ t_fold.reads > 1
    /\ t_salt1.salt # t_args.acc
    /\ t_fold.salt = t_args.acc

\* C4: copy_and_apply_with_salt, whatever the sizes of its reads, has
\* written the bytes and left the salt that one apply_with_salt over all the
\* data gives a Stream built alike; the same for copy_and_apply_with_hash,
\* apply_with_hash and what the hash was fed
C4_ChunkingInvariance ==
    /\ t_pc = "copied_salt"
           => (t_copy.data = t_salt1.data /\ t_copy.acc = t_salt1.salt)
    /\ t_pc \in {"fold", "done"}
           => (t_copy.data = t_hash1.data /\ t_copy.acc = t_hash1.hash)

C4_Witness ==
    /\ t_pc = "copied_salt"
    /\ Len(t_in) > BLOCK
    /\ t_copy.reads > 1
    /\ t_copy.data = t_salt1.data
    /\ t_copy.data # t_in

\* C5: apply_with_hash and apply_with_salt, by Streams built alike over the
\* same data, give the same bytes
C5_SameOutput ==
    t_pc \in {"copy_hash", "fold", "done"} => t_hash1.data = t_salt1.data

C5_Witness ==
    /\ t_pc = "copy_hash"
    /\ Len(t_in) > BLOCK
    /\ t_hash1.data = t_salt1.data
    /\ t_hash1.data # t_in

\* C6: the step in which decrypt compares the MACs and returns leaves the
\* destination as it is, which by then holds a byte for every byte of the
\* ciphertext after the MAC block, and what it returns is Ok(..), match or
\* not
C6_CompareAfterWrite ==
    [][(pc # "dec_done" /\ pc' = "dec_done")
          => /\ dest2' = dest2
             /\ Len(dest2) = Len(data_dat) - BLOCK
             /\ dec_ret'.kind = "ok"]_vars

C6_Witness ==
    /\ pc = "dec_done"
    /\ dec_ret = RetOkBool(FALSE)
    /\ Len(dest2) > 0
    /\ Len(dest2) = Len(data_dat) - BLOCK

\* where a container run stands before encrypt has called Stream::new
BeforeStream == {"create", "enc_derive", "enc_mac", "enc_new"}

\* C7: under settings with a field of 0, whatever the build, encrypt gets
\* no further than Stream::new: it has returned an error (of the settings,
\* or of a step before) and nothing has panicked
C7_InvalidSettingsRejected ==
    (~Positive(settings) /\ pc \notin BeforeStream)
        => /\ pc = "enc_failed"
           /\ enc_ret.kind = "err"
           /\ stream = NoStream
           /\ panic = ""

RECURSIVE XorAt(_, _, _)
\* acc with bytes[k], bytes[k + 64], bytes[k + 128], .. XORed in
XorAt(bytes, k, acc) ==
    IF k > Len(bytes) THEN acc
    ELSE XorAt(bytes, k + BLOCK, BitXor(acc, bytes[k]))

\* salt0 with every byte of bytes XORed into the index (offset mod 64)
FoldOver(salt0, bytes) == [z \in 1..BLOCK |-> XorAt(bytes, z, salt0[z])]

\* C9: the salt encrypt returns is the salt gen_salt gave with every byte
\* written to dest, the MAC block and then the payload, XORed into the
\* index (offset mod 64)
C9_SaltIsFold ==
    pc = "enc_done"
        => /\ enc_ret = RetOkSalt(FoldOver(orig_salt, data_dat))
           /\ Len(data_dat) = BLOCK + Len(source)

C9_Witness ==
    /\ pc = "enc_done"
    /\ Len(data_dat) > BLOCK
    /\ enc_ret.salt # orig_salt
    /\ enc_ret.salt = FoldOver(orig_salt, data_dat)

\* C10: when the KDF has failed in encrypt, encrypt has returned, nothing is
\* written to dest and no Stream was built; the same for decrypt
C10_KdfFailureWritesNothing ==
    /\ enc_ret = RetErr("Unable to derive password")
           => (pc = "enc_failed" /\ data_dat = <<>> /\ stream = NoStream)
    /\ dec_ret = RetErr("Unable to derive password")
           => (pc = "dec_failed" /\ dest2 = <<>> /\ dstream = NoStream)

C10_Witness ==
    /\ pc = "dec_failed"
    /\ dec_ret = RetErr("Unable to derive password")
    /\ Len(data_dat) > BLOCK
    /\ dest2 = <<>>


\* the bytes a and b XORed position by position
XorSeq(a, b) == [i \in 1..Len(a) |-> BitXor(a[i], b[i])]

\* C11: encrypt computes the MAC H(key || source) over the whole source and
\* rewinds the source before any byte is written; the first 64 bytes written
\* are the MAC under the first keystream block, the payload ciphertext
\* follows them, and the output is 64 + Len(source) bytes long
C11_MacFirst ==
    /\ [](/\ pc \in {"enc_derive", "enc_mac", "enc_new", "enc_macblock"}
              => data_dat = <<>>
          /\ pc \in {"enc_new", "enc_macblock"}
              => mac = Sha3_512(key \o source) /\ src_pos = 0
          /\ pc = "enc_copy" => Len(data_dat) = BLOCK + src_pos
          /\ pc = "enc_copy" /\ src_pos = 0
              => data_dat = XorSeq(mac, stream.mask)
          /\ pc = "enc_done" => Len(data_dat) = BLOCK + Len(source))
    /\ [][pc = "enc_copy"
             => SubSeq(data_dat', 1, Len(data_dat)) = data_dat]_vars

\* an encryption of a payload that is not empty has ended
C11_Witness ==
    /\ pc = "enc_done"
    /\ Len(source) = MaxLen
    /\ Len(data_dat) = BLOCK + MaxLen
    /\ SubSeq(data_dat, 1, BLOCK) # mac


\* C12: read_container folds the whole ciphertext in decrypt_salt before
\* decrypt does anything: while the fold runs, the key, the generator, the
\* MAC and the plaintext of decrypt are untouched; the fold ends only at the
\* end of data.dat; decrypt then reads from the first byte and derives its
\* key from the salt recovered by the fold, not from the one in salt.dat
C12_SaltBeforeDecrypt ==
    /\ [](/\ pc \in {"dec_derive", "dec_new"}
              => /\ rd_pos = 0
                 /\ ds_ptr = Len(data_dat)
                 /\ rsalt = Fold([salt |-> salt_dat, salt_ptr |-> 0],
                                 data_dat, 1, Len(data_dat)).salt
          /\ pc = "dec_new" => dkey = derive_password(passwd2, rsalt))
    /\ [][pc = "ds_loop"
             => /\ UNCHANGED <<dkey, dstream, expected_mac, mac_hash, dest2>>
                /\ pc' = "dec_derive" => rd_pos = Len(data_dat)]_vars

\* decrypt has derived its key from a recovered salt that differs from the
\* stored one
C12_Witness ==
    /\ pc = "dec_new"
    /\ rsalt # salt_dat
    /\ ds_ptr = BLOCK + MaxLen
    /\ dkey = derive_password(passwd2, rsalt)
    /\ dkey # derive_password(passwd2, salt_dat)


\* the hash computations of kind what among those the generator b finalized
\* in its last call
CallsOf(b, what) == {k \in DOMAIN b.calls : b.calls[k].what = what}

\* the hash computation k of b: one count since the computation before it,
\* and the value counted is at the bytes off+1..off+8 of its input
CounterAt(b, k, off) ==
    /\ SubSeq(b.calls[k].input, off + 1, off + 8) = int_to_arr(b.calls[k].cnt - 1)
    /\ k > 1 => b.calls[k].cnt = b.calls[k - 1].cnt + 1

\* the block the hash computation k of b gave is the second part of the
\* input of the sampled update after it, or, with no sampling, the block
\* at the position of k
MixedBlockUsed(b, k) ==
    IF b.step_delta = 0
    THEN k = Len(b.calls) => b.buffer[b.calls[k].pos + 1] = Sha3_512(b.calls[k].input)
    ELSE /\ k + 2 <= Len(b.calls)
         /\ b.calls[k + 2].what = "sampled"
         /\ SubSeq(b.calls[k + 2].input, 9, 8 + BLOCK) = Sha3_512(b.calls[k].input)

\* C13 as amended: the first update of every internal step is
\* block[position] = H(prev || counter || block[position]): 64 bytes of
\* prev, then the 8 bytes of the counter, then the 64 bytes of the block;
\* the counter is incremented by one afterwards
C13_PrevCounterBlock ==
    \A g \in {g1, g2} : \A k \in CallsOf(g.b, "mix") :
        /\ Len(g.b.calls[k].input) = BLOCK + 8 + BLOCK
        /\ CounterAt(g.b, k, BLOCK)
        /\ MixedBlockUsed(g.b, k)

\* a generator whose construction made internal steps, stepped once more
C13_Witness ==
    /\ g_pc = "step"
    /\ Len(g1.out) = 1
    /\ g_args.settings.s_cost = MaxSCost
    /\ g_args.settings.step_delta = MaxDelta
    /\ CallsOf(g1.b, "mix") = {1}
    /\ SubSeq(g1.b.calls[1].input, BLOCK + 1, BLOCK + 8) = int_to_arr(g1.b.cnt - 1 - 2 * MaxDelta)

\* C13 as stated: the first update of every internal step is
\* block[position] = H(counter || prev || block[position]), the counter
\* first in the hash input, and incremented by one afterwards
C13_CounterFirst ==
    \A g \in {g1, g2} : \A k \in CallsOf(g.b, "mix") :
        /\ Len(g.b.calls[k].input) = 8 + BLOCK + BLOCK
        /\ CounterAt(g.b, k, 0)
        /\ MixedBlockUsed(g.b, k)


\* bytes is a part of input
Contains(input, bytes) ==
    \E off \in 0..(Len(input) - Len(bytes)) :
        SubSeq(input, off + 1, off + Len(bytes)) = bytes

\* C14 as amended: every hash computation of the generator but the output
\* hash of step() has the current value of the counter in its input (first
\* in the fill and in the sampled update, after prev in the mixing update,
\* after i in the index sampling) and counts it once; the output hash of
\* step() hashes the 64 bytes of the result and no counter, and does not
\* count; the counter never goes back
C14_CounterButInOutput ==
    /\ [](\A g \in {g1, g2} : \A k \in DOMAIN g.b.calls :
              CASE g.b.calls[k].what = "fill"    -> CounterAt(g.b, k, 0)
                [] g.b.calls[k].what = "mix"     -> CounterAt(g.b, k, BLOCK)
                [] g.b.calls[k].what = "index"   -> CounterAt(g.b, k, 8)
                [] g.b.calls[k].what = "sampled" -> CounterAt(g.b, k, 0)
                [] g.b.calls[k].what = "output"  ->
                       /\ k = Len(g.b.calls)
                       /\ k > 1
                       /\ g.b.calls[k].cnt = g.b.calls[k - 1].cnt
                       /\ g.b.calls[k].cnt = g.b.cnt
                       /\ Len(g.b.calls[k].input) = BLOCK
                       /\ ~Contains(g.b.calls[k].input, int_to_arr(g.b.cnt))
                       /\ ~Contains(g.b.calls[k].input, int_to_arr(g.b.cnt - 1)))
    /\ [][g1'.b.cnt >= g1.b.cnt /\ g2'.b.cnt >= g2.b.cnt]_vars

\* a step() that sampled and then hashed its result has ended
C14_Witness ==
    /\ g_pc = "step"
    /\ Len(g1.out) = MaxSteps
    /\ CallsOf(g1.b, "index") # {}
    /\ CallsOf(g1.b, "sampled") # {}
    /\ CallsOf(g1.b, "output") = {Len(g1.b.calls)}

\* C14 as stated: every hash computation of the generator, the output hash
\* of step() too, has the current value of the counter in its input
C14_CounterInEveryHash ==
    \A g \in {g1, g2} : \A k \in DOMAIN g.b.calls :
        \/ Contains(g.b.calls[k].input, int_to_arr(g.b.calls[k].cnt))
        \/ Contains(g.b.calls[k].input, int_to_arr(g.b.calls[k].cnt - 1))


\* the first and the last 64 bytes of the input of a mixing update: prev and
\* the block at the position
PrevOf(call) == SubSeq(call.input, 1, BLOCK)
BlockOf(call) == SubSeq(call.input, Len(call.input) - BLOCK + 1, Len(call.input))

OtherOf(b, k) ==
    arr_to_int_rem(SubSeq(Sha3_512(b.calls[k].input), 1, 8), Len(b.buffer))

\* the generator after a step from before: the step hashed the block at the
\* position of before into its output, and the position moved one on, round
\* the buffer
SteppedOnce(before, after) ==
    /\ after.b.pos = (before.b.pos + 1) % Len(before.b.buffer)
    /\ after.b.calls[Len(after.b.calls)].input = after.b.buffer[before.b.pos + 1]
    /\ after.out[Len(after.out)] = Sha3_512(after.b.buffer[before.b.pos + 1])
    /\ \A j \in 1..Len(after.b.buffer) :
           j # before.b.pos + 1 => after.b.buffer[j] = before.b.buffer[j]

\* C17: for s_cost >= 1 the position is in 0..s_cost-1 and 0 right after
\* the construction; every sampled index `other` is in 0..s_cost-1 and the
\* sampled update of a step() hashes the block at that index; a step
\* returns the block at the position before it advances, and the position
\* advances by one round the buffer
C17_PositionCycles ==
    /\ [](g_pc = "step" => \A g \in {g1, g2} :
              /\ Len(g.b.buffer) = g_args.settings.s_cost
              /\ g.b.pos \in 0..(g_args.settings.s_cost - 1)
              /\ Len(g.out) = 0 => g.b.pos = 0
              /\ \A k \in CallsOf(g.b, "index") :
                     /\ OtherOf(g.b, k) \in 0..(g_args.settings.s_cost - 1)
                     /\ g.b.calls[k + 1].pos \in 0..(g_args.settings.s_cost - 1)
                     /\ Len(g.out) > 0
                            => BlockOf(g.b.calls[k + 1])
                                   = IF OtherOf(g.b, k) = g.b.calls[k + 1].pos
                                     THEN SubSeq(g.b.calls[k + 1].input, 9, 8 + BLOCK)
                                     ELSE g.b.buffer[OtherOf(g.b, k) + 1])
    /\ [][g_pc = "step" => /\ g1' # g1 => SteppedOnce(g1, g1')
                           /\ g2' # g2 => SteppedOnce(g2, g2')]_vars

\* a generator of more than one block has gone round its buffer
C17_Witness ==
    /\ g_pc = "step"
    /\ g_args.settings.s_cost = MaxSCost
    /\ MaxSCost > 1
    /\ Len(g1.out) = MaxSCost
    /\ g1.b.pos = 0
    /\ Len(g2.out) = 1
    /\ g2.b.pos = 1
    /\ CallsOf(g2.b, "index") # {}


\* the mask_ptr of a Stream that has masked n bytes since it was built: 64,
\* not 0, when n is a multiple of 64 that is not 0
CursorAfter(n) == IF n = 0 THEN 0 ELSE ((n - 1) % BLOCK) + 1

\* C18 as amended: mask_ptr is in 0..64 in every state of a Stream; it is
\* 64 between two calls when the bytes masked so far are a multiple of 64
\* (after the MAC block, in encrypt and in decrypt), and the refill with
\* the reset to 0 comes with the next byte that is masked: the call that
\* masks it makes one step() of the generator, a call that starts below 64
\* and stays within the block makes none
C18_CursorUpTo64 ==
    /\ [](/\ stream.mask_ptr \in 0..BLOCK
          /\ dstream.mask_ptr \in 0..BLOCK
          /\ pc = "enc_macblock" => stream.mask_ptr = 0
          /\ pc = "dec_mac" => dstream.mask_ptr = 0
          /\ pc \in {"enc_copy", "enc_done"}
                 => stream.mask_ptr = CursorAfter(BLOCK + src_pos)
          /\ pc \in {"dec_copy", "dec_done"}
                 => dstream.mask_ptr = CursorAfter(rd_pos))
    /\ [][/\ (pc = "enc_copy" /\ stream' # stream)
                 => IF stream.mask_ptr = BLOCK
                    THEN stream'.balloon.cnt
                             = stream.balloon.cnt + 1 + 2 * settings.step_delta
                    ELSE stream'.balloon = stream.balloon
          /\ (pc = "dec_copy" /\ dstream' # dstream)
                 => IF dstream.mask_ptr = BLOCK
                    THEN dstream'.balloon.cnt
                             = dstream.balloon.cnt + 1 + 2 * settings.step_delta
                    ELSE dstream'.balloon = dstream.balloon]_vars

\* between the call that masked the 64 bytes of the MAC and the first call
\* on the payload, in encrypt
C18_Witness ==
    /\ pc = "enc_copy"
    /\ src_pos = 0
    /\ Len(source) > 0
    /\ stream.mask_ptr = BLOCK

\* C18 as stated: mask_ptr is in 0..63 in every state of a Stream, between
\* two calls and after a call that masked a multiple of 64 bytes too
C18_CursorBelow64 ==
    /\ stream.mask_ptr \in 0..(BLOCK - 1)
    /\ dstream.mask_ptr \in 0..(BLOCK - 1)


\* C19: apply_with_hash feeds the running hash the bytes it puts out, in
\* order: in decrypt the hash started with the key has absorbed the key and
\* then exactly the plaintext written so far, every call appends to it the
\* bytes it appends to the plaintext, and the MAC compared at the end is
\* H(key || decrypted payload)
C19_HashOfOutput ==
    /\ [](/\ pc \in {"dec_copy", "dec_done"} => mac_hash = dkey \o dest2
          /\ pc = "dec_done"
                 => dec_ret = RetOkBool(expected_mac = Sha3_512(dkey \o dest2)))
    /\ [][(pc = "dec_copy" /\ pc' = "dec_copy")
              => /\ Len(dest2') = rd_pos' - BLOCK
                 /\ mac_hash' = mac_hash \o SubSeq(dest2', Len(dest2) + 1, Len(dest2'))]_vars

\* decrypt has ended on a payload whose plaintext differs from its
\* ciphertext
C19_Witness ==
    /\ pc = "dec_done"
    /\ Len(dest2) = MaxLen
    /\ mac_hash = dkey \o dest2
    /\ dest2 # SubSeq(data_dat, BLOCK + 1, Len(data_dat))


\* a is the start of b
IsPrefix(a, b) == Len(a) <= Len(b) /\ SubSeq(b, 1, Len(a)) = a

\* C20: a read or a write that fails in encrypt or decrypt ends the call
\* with the I/O error; the destination keeps what was written before, with
\* at most the part of the last write that got through after it; and once
\* the call has failed no step of the program is left to take, so nothing
\* is written or tried again
C20_AbortNoRollback ==
    /\ [](pc \in {"enc_failed", "dec_failed", "read_failed"} => ~ENABLED Next)
    /\ [][/\ (pc \in {"enc_mac", "enc_macblock", "enc_copy"} /\ pc' = "enc_failed")
                 => /\ enc_ret' = RetErr("io")
                    /\ IsPrefix(data_dat, data_dat')
          /\ (pc \in {"dec_mac", "dec_copy"} /\ pc' = "dec_failed")
                 => /\ dec_ret' = RetErr("io")
                    /\ IsPrefix(dest2, dest2')
                    /\ data_dat' = data_dat
          /\ pc \in {"enc_failed", "dec_failed", "read_failed"}
                 => UNCHANGED <<data_dat, dest2, enc_ret, dec_ret>>]_vars

\* decrypt has failed on I/O after a part of the plaintext was written
C20_Witness ==
    /\ pc = "dec_failed"
    /\ dec_ret = RetErr("io")
    /\ Len(dest2) > 0
    /\ Len(dest2) < Len(source)
    /\ IsPrefix(dest2, source)


\* C21: when one byte of data.dat, in the MAC block or in the payload, was
\* changed after encrypt and salt.dat was kept, decrypt_salt recovers a
\* salt that differs from the one of encrypt at the index of that byte and
\* nowhere else, the key derived from it with the password of encrypt is
\* another key, and decrypt with that password ends with Ok(false)
C21_TamperDetected ==
    (tamper # 0 /\ passwd2 = passwd)
        => /\ pc \in {"dec_derive", "dec_new", "dec_mac", "dec_copy", "dec_done"}
                  => \A z \in 1..BLOCK :
                         (rsalt[z] = orig_salt[z]) <=> (z # ((tamper - 1) % BLOCK) + 1)
           /\ pc \in {"dec_new", "dec_mac", "dec_copy", "dec_done"} => dkey # key
           /\ pc = "dec_done" => dec_ret = RetOkBool(FALSE)

\* decrypt with the password of encrypt has ended on a container whose
\* last payload byte was changed
C21_Witness ==
    /\ pc = "dec_done"
    /\ tamper = BLOCK + MaxLen
    /\ passwd2 = passwd
    /\ Len(dest2) = MaxLen
    /\ dec_ret = RetOkBool(FALSE)


\* the Progress after of a generator built with the Progress before and n
\* calls of step() later: the target is up by s_cost * t_cost, the count
\* by s_cost * t_cost and by one per step()
Accounted(before, after, n) ==
    /\ after.out_of = before.out_of
                          + g_args.settings.s_cost * g_args.settings.t_cost
    /\ after.progress = before.progress
                            + g_args.settings.s_cost * g_args.settings.t_cost + n

\* C22: Balloon::new raises the target of its Progress by s_cost * t_cost
\* and counts one per internal step, s_cost * t_cost in all; every step()
\* after it counts one more and leaves the target alone
C22_ProgressOfConstruction ==
    g_pc = "step"
        => /\ Accounted(g_args.prog1, g1.prog, Len(g1.out))
           /\ Accounted(g_args.prog2, g2.prog, Len(g2.out))
           /\ Len(g1.out) = 0
                  => Cardinality(CallsOf(g1.b, "mix"))
                         = g1.prog.progress - g_args.prog1.progress

\* a Progress that was in use before, the largest settings, some steps
C22_Witness ==
    /\ g_pc = "step"
    /\ g_args.prog1 # Progress_new
    /\ g_args.settings = [s_cost |-> MaxSCost, t_cost |-> MaxTCost,
                          step_delta |-> MaxDelta]
    /\ Len(g1.out) = MaxSteps
    /\ Len(g2.out) = 0
    /\ g1.prog.progress = g_args.prog1.progress + MaxSCost * MaxTCost + MaxSteps
    /\ g1.prog.out_of = g_args.prog1.out_of + MaxSCost * MaxTCost


\* the field of the ProgressState a mutating call writes
FieldOf(call) ==
    CASE call.op = "inc"       -> "progress"
      [] call.op = "inc_max"   -> "out_of"
      [] call.op = "set_max"   -> "out_of"
      [] call.op = "set_state" -> "state"
      [] OTHER                 -> ""

\* C23: a thread holds the guard exactly while it is inside one call; the
\* ProgressState changes only in the write of the call that holds the
\* guard, in the one field of that call, and that call then only returns;
\* whenever no call is under way every thread with a call left can take
\* the lock, the one that reads between two calls of another too; and as
\* long as a call is left or under way some thread can move
C23_PerCallLocking ==
    /\ [](/\ \A t \in Threads :
                 (th[t].pc \in {"load", "store", "unlock"}) <=> (lock = t)
          /\ lock = NoThread
                 => \A t \in Threads : th[t].left > 0 => ENABLED Acquire(t)
          /\ (\E t \in Threads : th[t].left > 0 \/ th[t].pc # "idle")
                 => ENABLED ProgNext)
    /\ [][inner' # inner
             => /\ lock \in Threads
                /\ lock' = lock
                /\ th[lock].pc = "store"
                /\ th'[lock].pc = "unlock"
                /\ \A f \in {"progress", "out_of", "state"} :
                       inner'[f] # inner[f] => f = FieldOf(th[lock].call)]_vars

\* between the first call of a thread, set_state, and its second one,
\* print_progress_bar has read the new state and then the count and the
\* target, both as they were
C23_Witness ==
    /\ lock = NoThread
    /\ th[1].pc = "idle"
    /\ th[1].left = MaxCalls - 1
    /\ th[2].left = MaxCalls
    /\ th[Observer].pc = "idle"
    /\ th[Observer].left = Len(ObserverCalls) - 2
    /\ inner.state # tally.start.state
    /\ seen.state = inner.state
    /\ seen.ratio = <<tally.start.progress, tally.start.out_of>>

\* C24: under settings with all fields positive, at every point of
\* create_container and of read_container the count of the Progress is at
\* most its target; the target is the byte count / 64 raised by
\* s_cost * t_cost, the count goes up by one in each step_internal, those
\* behind the blocks of keystream included
C24_CountWithinTarget ==
    Positive(settings)
        => /\ prog.progress <= prog.out_of
           /\ prog2.progress <= prog2.out_of

\* every call made so far has returned
AllReturned == \A t \in Threads : th[t].pc = "idle"

\* C25: whenever all the calls made through the clones have returned, the
\* count is the count at the start plus the number of calls of inc, the
\* target is the value of the last set_max (the target at the start when
\* there was none) plus the sum of the inc_max that took the lock after it,
\* and the state is that of the last set_state
C25_NoLostUpdates ==
    AllReturned
        => /\ inner.progress = tally.start.progress + tally.incs
           /\ inner.out_of = tally.last_max + tally.raised
           /\ inner.state = tally.state

\* two inc, a set_max and an inc_max after it have returned, with the
\* getters of print_progress_bar
C25_Witness ==
    /\ AllReturned
    /\ \A t \in Threads : th[t].left = 0
    /\ tally.incs = 2
    /\ tally.last_max = 5
    /\ tally.raised = 2
    /\ inner.progress = tally.start.progress + 2
    /\ inner.out_of = 7
    /\ seen.count = tally.start.progress + 1

====
